---- MODULE Spec2Model ----
(***************************************************************************)
(* Cluster topology discovery, quorum-based health evaluation and          *)
(* membership operations of PostgresqlServer                               *)
(* (src/Scripts/postgresql_server.py).                                     *)
(*                                                                         *)
(* Python values are represented as follows.                               *)
(*   - an optional number (dict.get of a key that may be missing) is a     *)
(*     tuple: <<>> is None, <<v>> is the number v;                         *)
(*   - an optional address is a string, "None" standing for None;          *)
(*   - a dict is a record, a list is a sequence;                           *)
(*   - a raw probe reply has a field "present": an empty reply ({} or      *)
(*     None) has present = FALSE.                                          *)
(***************************************************************************)
EXTENDS Integers, Sequences, FiniteSets, TLC

VARIABLES
    services,         \* config[SERVICES_TO_INSTALL] of the node running the code
    etcd_health,      \* what `etcdctl cluster-health` prints
    etcd_members,     \* lines of `etcdctl member list`, as <<[id, ip], ...>>
    patroni_dsn,      \* what `patronictl dsn` prints
    haproxy_servers,  \* rows of common.get_haproxy_servers
    agent,            \* address -> reply of the patroni REST endpoint (port 8008)
    etcd_stats,       \* address -> reply of the etcd /v2/stats/self endpoint
    verdict,          \* what get_cluster_status last produced
    dcs_config,       \* JSON text stored under the etcd key /db/postgres/config
    haproxy_cfg,      \* server lines of /etc/haproxy/haproxy.cfg
    calls,            \* mutating commands issued by the membership operation
    op,               \* the membership operation: its argument, locals, result
    probe,            \* the last call of _get_raw_node_status
    auth              \* the call of _etcd_requires_auth: its loop and result

sourceVars == <<services, etcd_health, etcd_members, patroni_dsn,
                haproxy_servers>>
probeVars == <<agent, etcd_stats, probe, auth>>
memberVars == <<dcs_config, haproxy_cfg, calls, op>>
vars == <<sourceVars, probeVars, verdict, memberVars>>

-----------------------------------------------------------------------------
(* Bounds of the model *)

\* Largest number of replica addresses the topology sources name.
MaxReplicas == 2

-----------------------------------------------------------------------------
(* Python values *)

None == <<>>
Some(v) == <<v>>
NoAddress == "None"

\* Truth value of an optional number: None and 0 are falsy.
Truthy(opt) == opt # None /\ opt[1] # 0

Range(seq) == {seq[i] : i \in 1..Len(seq)}

RECURSIVE SelectSeqBy(_, _)
\* [x for x in seq if x \notin drop]
SelectSeqBy(seq, drop) ==
    IF seq = <<>> THEN <<>>
    ELSE IF Head(seq) \in drop THEN SelectSeqBy(Tail(seq), drop)
         ELSE <<Head(seq)>> \o SelectSeqBy(Tail(seq), drop)

-----------------------------------------------------------------------------
(* Status codes for listing nodes *)

HEALTHY == 0
DEGRADED == 1
DOWN == 2

DATABASE_SERVICE == "database_service"
MANAGER_SERVICE == "manager_service"

\* The i-th node address of the cluster configuration.
Addr(i) == "10.0.0." \o ToString(i)

-----------------------------------------------------------------------------
(* Raw probe replies: _get_raw_node_status *)

\* An empty reply: None for address None, {} for a dead node.
NoReply ==
    [present |-> FALSE, state |-> "", timeline |-> None, location |-> None,
     replayed_location |-> None, replication |-> <<>>]

NoEtcdReply == [present |-> FALSE, state |-> ""]

\* A probe that gives a status for every address, dead or not.
GetRawNodeStatusNeverEmpty(address, replies, empty) ==
    [empty EXCEPT !.present = TRUE]

\* _get_raw_node_status(address, 'DB') and (address, 'etcd'): nothing is
\* requested for address None; a dead node gives the empty reply.
GetRawNodeStatus(address, replies, empty) ==
    IF address = NoAddress THEN empty
    ELSE IF address \in DOMAIN replies THEN replies[address]
    ELSE empty

-----------------------------------------------------------------------------
(* _get_raw_node_status: the request and its outcomes *)

\* dead_node_exceptions
DeadNodeExceptions == {"ConnectionError", "Timeout"}

\* The classes of requests.exceptions an exception is an instance of.
ExceptionClasses(exception) ==
    {exception} \cup
    (CASE exception = "SSLError" -> {"ConnectionError"}
       [] exception = "ProxyError" -> {"ConnectionError"}
       [] exception = "ConnectTimeout" -> {"ConnectionError", "Timeout"}
       [] exception = "ReadTimeout" -> {"Timeout"}
       [] OTHER -> {})

\* The CA certificate the request is verified with.
CaPath(installed) ==
    IF DATABASE_SERVICE \in installed THEN "ETCD_CA_PATH"
    ELSE "POSTGRESQL_CA_CERT_PATH"

\* The url requested for a target type.
Url(address, target_type) ==
    IF target_type = "etcd"
    THEN "https://" \o address \o ":2379/v2/stats/self"
    ELSE "https://" \o address \o ":8008"

\* _get_raw_node_status(address, target_type), given what requests.get(...)
\* .json() does: it returns the decoded body, or raises an exception (of
\* the connection, or ValueError for a body that is not JSON). The result is
\* the value returned (None, {} or the decoded dict) or the exception
\* raised, and the requests made.
RawNodeStatus(address, target_type, installed, response) ==
    IF address = NoAddress
    THEN [outcome |-> "returned", value |-> "None", body |-> <<>>,
          requests |-> <<>>]
    ELSE LET request == [url |-> Url(address, target_type),
                         verify |-> CaPath(installed), timeout |-> 5]
         IN  IF response.raises = ""
             THEN [outcome |-> "returned", value |-> "dict",
                   body |-> response.body, requests |-> <<request>>]
             ELSE IF ExceptionClasses(response.raises)
                        \cap DeadNodeExceptions # {}
             THEN [outcome |-> "returned", value |-> "{}", body |-> <<>>,
                   requests |-> <<request>>]
             ELSE [outcome |-> response.raises, value |-> "", body |-> <<>>,
                   requests |-> <<request>>]

\* No probe has been made.
NoProbe ==
    [phase |-> "idle", address |-> NoAddress, target_type |-> "",
     response |-> [raises |-> "", body |-> <<>>],
     outcome |-> "", value |-> "", body |-> <<>>, requests |-> <<>>]

\* What requests.get(url, verify=ca_path, timeout=5).json() can do.
Responses ==
    [raises : {""},
     body : {<<"state", "running">>, <<"state", "stopped">>,
             <<"state", "StateLeader">>, <<"state", "StateFollower">>}]
    \cup
    [raises : {"ConnectionError", "SSLError", "ProxyError", "ConnectTimeout",
               "ReadTimeout", "Timeout", "ValueError"},
     body : {<<>>}]

\* A call of _get_raw_node_status.
GetRawNodeStatusCall(address, target_type, response) ==
    /\ probe.phase = "idle"
    /\ probe' = [phase |-> "done", address |-> address,
                 target_type |-> target_type, response |-> response]
                @@ RawNodeStatus(address, target_type, services, response)
    /\ UNCHANGED <<sourceVars, agent, etcd_stats, auth, verdict, memberVars>>

-----------------------------------------------------------------------------
(* _etcd_requires_auth *)

\* attempts and wait_time
Attempts == 5
WaitTime == 3

\* 'user authentication' in aggr_stderr, the text being a sequence of phrases
Mentions(stderr, phrase) == phrase \in Range(stderr)

\* A check that takes every return code 4 for a request for authentication.
AuthCheckIgnoresText(reply) ==
    IF reply.returncode = 0 THEN "False"
    ELSE IF reply.returncode = 4 THEN "True"
    ELSE "retry"

\* The branches on one reply of `etcdctl ls /`: the value returned, or
\* "retry" when the loop goes on.
AuthCheck(reply) ==
    IF reply.returncode = 0 THEN "False"
    ELSE IF reply.returncode = 4
            /\ Mentions(reply.aggr_stderr, "user authentication")
    THEN "True"
    ELSE "retry"

\* _etcd_requires_auth has not been called.
NoAuth == [pc |-> "idle", replies |-> <<>>, slept |-> 0, result |-> ""]

\* What `etcdctl ls /` can answer.
AuthReplies ==
    [returncode : {0, 1, 4},
     aggr_stderr : {<<>>, <<"client:", "connection refused">>,
                    <<"Insufficient credentials:", "user authentication",
                      "required">>}]

\* The call, up to the loop.
EtcdRequiresAuthCall ==
    /\ auth.pc = "idle"
    /\ auth' = [auth EXCEPT !.pc = "running"]
    /\ UNCHANGED <<sourceVars, agent, etcd_stats, probe, verdict, memberVars>>

\* One pass of the loop: the query, its branches, the sleep.
EtcdRequiresAuthAttempt(cluster_auth_check) ==
    /\ auth.pc = "running"
    /\ Len(auth.replies) < Attempts
    /\ LET outcome == AuthCheck(cluster_auth_check)
           asked == [auth EXCEPT !.replies = Append(@, cluster_auth_check)]
       IN  auth' = IF outcome = "retry"
                   THEN [asked EXCEPT !.slept = @ + WaitTime]
                   ELSE [asked EXCEPT !.pc = "done", !.result = outcome]
    /\ UNCHANGED <<sourceVars, agent, etcd_stats, probe, verdict, memberVars>>

\* After the loop: raise ClusteringError.
EtcdRequiresAuthRaise ==
    /\ auth.pc = "running"
    /\ Len(auth.replies) = Attempts
    /\ auth' = [auth EXCEPT !.pc = "done", !.result = "ClusteringError"]
    /\ UNCHANGED <<sourceVars, agent, etcd_stats, probe, verdict, memberVars>>

-----------------------------------------------------------------------------
(* _get_sync_replicas *)

RECURSIVE SyncIps(_)
SyncIps(replication) ==
    IF replication = <<>> THEN <<>>
    ELSE IF Head(replication).sync_state = "sync"
         THEN <<Head(replication).client_addr>> \o SyncIps(Tail(replication))
         ELSE SyncIps(Tail(replication))

GetSyncReplicas(master_status) == SyncIps(master_status.replication)

-----------------------------------------------------------------------------
(* _get_node_status *)

GetNodeStatus(address, sync_replica, master) ==
    LET status == GetRawNodeStatus(address, agent, NoReply)
        etcd_status == GetRawNodeStatus(address, etcd_stats, NoEtcdReply)
        db_errors ==
            IF status.present
            THEN IF status.state = "running" THEN <<>>
                 ELSE <<"Node not running">>
            ELSE <<"Could not retrieve DB status">>
        etcd_errors ==
            IF etcd_status.present THEN <<>>
            ELSE <<"Could not retrieve etcd status">>
    IN  [node_ip |-> address,
         alive |-> status.present /\ status.state = "running",
         errors |-> db_errors \o etcd_errors,
         raw_status |-> status,
         log_location |->
            IF ~status.present THEN None
            ELSE IF master THEN status.location
            ELSE status.replayed_location,
         state |->
            IF ~status.present THEN "dead"
            ELSE IF master THEN "leader"
            ELSE IF sync_replica THEN "sync_replica"
            ELSE "async_replica",
         timeline |-> IF status.present THEN status.timeline ELSE None,
         etcd_state |->
            IF etcd_status.present THEN etcd_status.state ELSE "dead"]

-----------------------------------------------------------------------------
(* _determine_cluster_status *)

Max(a, b) == IF a >= b THEN a ELSE b

\* A status assignment that forgets the max: status = self.<level>
RaiseOverwrites(status, level) == level

\* status = max(status, self.<level>)
Raise(status, level) == Max(status, level)

\* Number of evaluated nodes whose etcd_state is `st`.
CountEtcd(nodes, st) ==
    Cardinality({i \in 1..Len(nodes) : nodes[i].etcd_state = st})

TwoDigits(n) == IF n < 10 THEN "0" \o ToString(n) ELSE ToString(n)

\* 'Lag: {amount:.2f}MiB'.format(amount=lag_bytes / 1024.0 / 1024.0), for
\* lag_bytes >= 0: the quotient is exact in binary floating point, and the
\* two-decimal rendering rounds it half to even.
FormatLag(lag_bytes) ==
    LET scaled == lag_bytes * 100
        q == scaled \div 1048576
        r == scaled % 1048576
        hundredths ==
            IF 2 * r > 1048576 \/ (2 * r = 1048576 /\ q % 2 = 1)
            THEN q + 1 ELSE q
    IN  "Lag: " \o ToString(hundredths \div 100) \o "."
            \o TwoDigits(hundredths % 100) \o "MiB"

\* if master['node_ip'] is None: status = max(status, DOWN)
CheckMasterResolved(status, master) ==
    IF master.node_ip = NoAddress THEN Raise(status, DOWN) ELSE status

\* if master['node_ip'] is None: db_nodes = replicas
EvaluatedNodes(db_nodes) ==
    IF db_nodes[1].node_ip = NoAddress THEN Tail(db_nodes) ELSE db_nodes

\* if not master['alive']: status = max(status, DOWN)
CheckMasterAlive(status, master) ==
    IF ~master.alive THEN Raise(status, DOWN) ELSE status

\* if not sync_ips: status = max(status, DOWN)
CheckSyncReplicas(status, sync_ips) ==
    IF sync_ips = <<>> THEN Raise(status, DOWN) ELSE status

\* A leader check that misses a second leader: if etcd_leaders < 1
CheckEtcdLeadersMissesTwo(status, etcd_leaders) ==
    IF etcd_leaders < 1 THEN Raise(status, DOWN) ELSE status

\* if etcd_leaders != 1: status = max(status, DOWN)
CheckEtcdLeaders(status, etcd_leaders) ==
    IF etcd_leaders # 1 THEN Raise(status, DOWN) ELSE status

\* A follower check that only warns below the majority.
CheckEtcdFollowersWarnsOnly(status, etcd_followers, majority_requirement, n_replicas) ==
    IF etcd_followers < n_replicas THEN Raise(status, DEGRADED) ELSE status

\* if etcd_followers < majority_requirement: DOWN
\* elif etcd_followers < len(replicas): DEGRADED
CheckEtcdFollowers(status, etcd_followers, majority_requirement, n_replicas) ==
    IF etcd_followers < majority_requirement THEN Raise(status, DOWN)
    ELSE IF etcd_followers < n_replicas THEN Raise(status, DEGRADED)
    ELSE status

\* The checks made before the loop over the replicas: the status after the
\* initialisation and after each of the five checks.
MasterAndEtcdChecks(db_nodes) ==
    LET master == db_nodes[1]
        replicas == Tail(db_nodes)
        member_count == 1 + Len(replicas)
        majority_requirement == member_count \div 2
        sync_ips == GetSyncReplicas(master.raw_status)
        evaluated == EvaluatedNodes(db_nodes)
        s0 == HEALTHY
        s1 == CheckMasterResolved(s0, master)
        s2 == CheckMasterAlive(s1, master)
        s3 == CheckSyncReplicas(s2, sync_ips)
        s4 == CheckEtcdLeaders(s3, CountEtcd(evaluated, "StateLeader"))
        s5 == CheckEtcdFollowers(s4, CountEtcd(evaluated, "StateFollower"),
                                 majority_requirement, Len(replicas))
    IN  <<s0, s1, s2, s3, s4, s5>>

\* A sync check that takes an equal log position for a lagging one (<=).
SyncReplicaCheckOffByOne(replica, status, master_log_location, none_less) ==
    IF Truthy(master_log_location) /\ replica.log_location # None
       /\ replica.log_location[1] <= master_log_location[1]
    THEN [errors |-> Append(replica.errors, "Out of sync"),
          status |-> Raise(status, DOWN), raised |-> FALSE]
    ELSE [errors |-> replica.errors, status |-> status, raised |-> FALSE]

\* The sync_replica branch of the loop body. `none_less` is the value of
\* None < n: True under Python 2; under Python 3 (FALSE) the comparison
\* raises a TypeError.
SyncReplicaCheck(replica, status, master_log_location, none_less) ==
    LET loc == replica.log_location
    IN  IF ~Truthy(master_log_location)
        THEN [errors |-> replica.errors, status |-> status, raised |-> FALSE]
        ELSE IF loc = None /\ ~none_less
        THEN [errors |-> replica.errors, status |-> status, raised |-> TRUE]
        ELSE IF loc = None \/ loc[1] < master_log_location[1]
        THEN [errors |-> Append(replica.errors, "Out of sync"),
              status |-> Raise(status, DOWN), raised |-> FALSE]
        ELSE [errors |-> replica.errors, status |-> status, raised |-> FALSE]

\* A lag check that takes exactly 2 MiB for excessive (>=).
LagExcessiveAtTwoMiB(lag_bytes) == lag_bytes >= 2 * 1024 * 1024

\* if lag_mb > 2, with lag_mb = lag_bytes / 1024.0 / 1024.0
LagExcessive(lag_bytes) == lag_bytes > 2 * 1024 * 1024

\* The else branch of the loop body, taken by asynchronous and by dead
\* replicas: the timeline check, then the lag computation, which raises a
\* TypeError when either log position is None.
AsyncReplicaCheck(replica, status, master_log_location, master_timeline) ==
    LET loc == replica.log_location
        off_timeline ==
            Truthy(master_timeline) /\ replica.timeline # master_timeline
        errs == IF off_timeline THEN Append(replica.errors, "Out of sync")
                ELSE replica.errors
        st == IF off_timeline THEN Raise(status, DEGRADED) ELSE status
    IN  IF master_log_location = None \/ loc = None
        THEN [errors |-> errs, status |-> st, raised |-> TRUE]
        ELSE IF LagExcessive(master_log_location[1] - loc[1])
        THEN [errors |->
                Append(errs, FormatLag(master_log_location[1] - loc[1])),
              status |-> st, raised |-> FALSE]
        ELSE [errors |-> errs, status |-> st, raised |-> FALSE]

\* One pass of the loop over the replicas: the replica's errors, the status,
\* and whether a TypeError was raised.
ReplicaCheck(replica, status, master_log_location, master_timeline, none_less) ==
    LET r == IF replica.state = "sync_replica"
             THEN SyncReplicaCheck(replica, status, master_log_location,
                                   none_less)
             ELSE AsyncReplicaCheck(replica, status, master_log_location,
                                    master_timeline)
    IN  IF ~r.raised /\ replica.raw_status.state = "master"
        THEN [r EXCEPT !.errors = Append(@, "EXTRA MASTER")]
        ELSE r

RECURSIVE ReplicaChecks(_, _, _, _, _)
\* The loop over the replicas: the replicas as the loop leaves them, the
\* status after each pass, the final status and whether a TypeError ended
\* the loop.
ReplicaChecks(replicas, status, master_log_location, master_timeline, none_less) ==
    IF replicas = <<>>
    THEN [replicas |-> <<>>, trace |-> <<>>, status |-> status,
          raised |-> FALSE]
    ELSE LET r == ReplicaCheck(Head(replicas), status, master_log_location,
                               master_timeline, none_less)
             replica == [Head(replicas) EXCEPT !.errors = r.errors]
         IN  IF r.raised
             THEN [replicas |-> <<replica>> \o Tail(replicas),
                   trace |-> <<r.status>>, status |-> r.status,
                   raised |-> TRUE]
             ELSE LET rest == ReplicaChecks(Tail(replicas), r.status,
                                            master_log_location,
                                            master_timeline, none_less)
                  IN  [rest EXCEPT !.replicas = <<replica>> \o @,
                                   !.trace = <<r.status>> \o @]

\* _determine_cluster_status(db_nodes): outcome "returned" with the status
\* and node list returned, or outcome "TypeError" with the status and nodes
\* as they were when the exception was raised. trace is the status after
\* the initialisation and after every check, in order.
DetermineClusterStatus(db_nodes, none_less) ==
    LET master == db_nodes[1]
        pre == MasterAndEtcdChecks(db_nodes)
        loop == ReplicaChecks(Tail(db_nodes), pre[Len(pre)],
                              master.raw_status.location,
                              master.raw_status.timeline, none_less)
    IN  [outcome |-> IF loop.raised THEN "TypeError" ELSE "returned",
         status |-> loop.status,
         db_nodes |-> IF master.node_ip = NoAddress THEN loop.replicas
                      ELSE <<master>> \o loop.replicas,
         trace |-> pre \o loop.trace]

-----------------------------------------------------------------------------
(* _get_etcd_members, _get_cluster_addresses *)

RECURSIVE MemberIps(_)
\* The keys of the dict that _get_etcd_members builds from the member list,
\* in insertion order: a later line with the same ip replaces the id only.
MemberIps(lines) ==
    IF lines = <<>> THEN <<>>
    ELSE LET before == MemberIps(SubSeq(lines, 1, Len(lines) - 1))
             ip == lines[Len(lines)].ip
         IN  IF ip \in Range(before) THEN before ELSE Append(before, ip)

\* The orders in which a dict with these keys can be iterated: the order of
\* insertion under Python 3.7 and later, the order of the hash table, which
\* can be any, under Python 2.
DictOrders(keys) ==
    {[i \in 1..Len(keys) |-> keys[order[i]]] :
        order \in Permutations(1..Len(keys))}

\* nodes = self._get_etcd_members(), as the sequences of keys that
\* `for node in nodes` can go through.
GetEtcdMembers(lines) == DictOrders(MemberIps(lines))

\* etcd_members.get(address): the id of the last line naming the address,
\* None ("None") when no line does.
MemberId(lines, address) ==
    LET hits == {i \in 1..Len(lines) : lines[i].ip = address}
    IN  IF hits = {} THEN NoAddress
        ELSE lines[CHOOSE i \in hits : \A j \in hits : j <= i].id

\* The DSN of the leader key of patroni, with or without a host.
Dsn(host) == [has_host |-> TRUE, host |-> host, port |-> 5432]
NoDsn == [has_host |-> FALSE, host |-> "", port |-> 0]

\* The text after 'port=' begins with 5432: the pattern is not anchored at
\* its end, so 54321 matches as 5432 does.
PortMatches(port) ==
    LET text == ToString(port)
    IN  Len(text) >= 4 /\ SubSeq(text, 1, 4) = "5432"

\* master_finder.findall(master_dsn)[0] with 'host=(.*) port=5432', None on
\* IndexError.
MasterFinder(dsn) ==
    IF dsn.has_host /\ PortMatches(dsn.port) THEN dsn.host ELSE NoAddress

RECURSIVE HaproxyScan(_, _)
\* The loop over the haproxy backends, continued from `acc`.
HaproxyScan(backends, acc) ==
    IF backends = <<>> THEN acc
    ELSE LET backend == Head(backends)
             server_name == backend.svname[2]
         IN  HaproxyScan(
                 Tail(backends),
                 IF backend.status = "UP"
                 THEN [acc EXCEPT !.master = server_name]
                 ELSE [acc EXCEPT !.replicas = Append(@, server_name)])

\* A filter that gives no replicas when the master is unknown.
ReplicasOfKnownMaster(nodes, master) ==
    IF master = NoAddress THEN <<>> ELSE SelectSeqBy(nodes, {master})

\* [node for node in nodes if node != master]
ReplicasOf(nodes, master) == SelectSeqBy(nodes, {master})

\* _get_cluster_addresses over the given data sources, `nodes` being the keys
\* of the etcd members in the order of iteration: outcome "ok" with master
\* and replicas, or the DBNodeListError raised.
ClusterAddresses(installed, health, nodes, dsn, backends) ==
    IF DATABASE_SERVICE \in installed
    THEN IF health \in {"cluster is unavailable", "failed to list members"}
         THEN [outcome |-> "DBNodeListError", master |-> NoAddress,
               replicas |-> <<>>]
         ELSE LET master == MasterFinder(dsn)
              IN  [outcome |-> "ok", master |-> master,
                   replicas |-> ReplicasOf(nodes, master)]
    ELSE IF MANAGER_SERVICE \in installed
    THEN HaproxyScan(backends,
                     [outcome |-> "ok", master |-> NoAddress,
                      replicas |-> <<>>])
    ELSE [outcome |-> "DBNodeListError", master |-> NoAddress,
          replicas |-> <<>>]

GetClusterAddresses(nodes) ==
    ClusterAddresses(services, etcd_health, nodes, patroni_dsn,
                     haproxy_servers)

-----------------------------------------------------------------------------
(* get_cluster_status *)

NotRun ==
    [phase |-> "idle", outcome |-> "", status |-> HEALTHY, input |-> <<>>,
     db_nodes |-> <<>>, trace |-> <<>>]

\* The node list handed to _determine_cluster_status.
ProbedNodes(master_address, replica_addresses) ==
    LET master == GetNodeStatus(master_address, FALSE, TRUE)
        sync_ips == Range(GetSyncReplicas(master.raw_status))
    IN  <<master>> \o
        [i \in 1..Len(replica_addresses) |->
            GetNodeStatus(replica_addresses[i],
                          replica_addresses[i] \in sync_ips, FALSE)]

\* The loop compares None with a number when a sync replica has no log
\* position: the interpreter then decides the outcome (True under Python 2,
\* a TypeError under Python 3).
NoneCompared(db_nodes) ==
    /\ Truthy(db_nodes[1].raw_status.location)
    /\ \E i \in 2..Len(db_nodes) :
           db_nodes[i].state = "sync_replica"
           /\ db_nodes[i].log_location = None

\* get_cluster_status, once the addresses are resolved.
ProbeAndDetermine(top, none_less) ==
    LET db_nodes == ProbedNodes(top.master, top.replicas)
        r == DetermineClusterStatus(db_nodes, none_less)
    IN  [phase |-> "done", outcome |-> r.outcome, status |-> r.status,
         input |-> db_nodes, db_nodes |-> r.db_nodes, trace |-> r.trace]

GetClusterStatus ==
    /\ verdict.phase = "idle"
    /\ \E nodes \in GetEtcdMembers(etcd_members) :
       LET top == GetClusterAddresses(nodes)
       IN  IF top.outcome # "ok"
           THEN verdict' = [NotRun EXCEPT !.phase = "done",
                                          !.outcome = top.outcome]
           ELSE \/ verdict' = ProbeAndDetermine(top, FALSE)
                \/ /\ NoneCompared(ProbedNodes(top.master, top.replicas))
                   /\ verdict' = ProbeAndDetermine(top, TRUE)
    /\ UNCHANGED <<sourceVars, probeVars, memberVars>>

-----------------------------------------------------------------------------
(* The patroni configuration blob and its pg_hba list *)

\* The pg_hba entry 'hostssl <database> <user> <cidr> md5[ <option>]' as the
\* list of its space-separated fields.
PgHbaEntry(database, user, cidr, options) ==
    <<"hostssl", database, user, cidr, "md5">> \o options

\* _add_node_to_pg_hba: pg_hba[:0] = [the two entries of the node].
AddNodeToPgHba(pg_hba, node) ==
    <<PgHbaEntry("all", "postgres", node \o "/32", <<>>),
      PgHbaEntry("replication", "replicator", node \o "/32", <<>>)>>
    \o pg_hba

\* The pg_hba list of the bootstrap configuration before the nodes are added.
DefaultPgHba(ssl_client_verification) ==
    <<PgHbaEntry("replication", "replicator", "127.0.0.1/32", <<>>),
      PgHbaEntry("all", "all", "0.0.0.0/0",
                 IF ssl_client_verification THEN <<"clientcert=1">>
                 ELSE <<>>)>>

RECURSIVE BootstrapPgHba(_, _)
\* for node in nodes: _add_node_to_pg_hba(pg_hba, node)
BootstrapPgHba(pg_hba, nodes) ==
    IF nodes = <<>> THEN pg_hba
    ELSE BootstrapPgHba(AddNodeToPgHba(pg_hba, Head(nodes)), Tail(nodes))

\* An exclusion string without the /32 of the entries.
ExclusionStringWithoutMask(address, entry) ==
    \E i \in 2..(Len(entry) - 1) : entry[i] = address

\* exclusion_string in entry, for exclusion_string = ' <address>/32 ': the
\* text between two spaces of the entry is one of its inner fields.
ExclusionStringIn(address, entry) ==
    \E i \in 2..(Len(entry) - 1) : entry[i] = address \o "/32"

RECURSIVE ExcludeEntries(_, _)
\* [entry for entry in pg_hba if exclusion_string not in entry]
ExcludeEntries(pg_hba, address) ==
    IF pg_hba = <<>> THEN <<>>
    ELSE IF ExclusionStringIn(address, Head(pg_hba))
         THEN ExcludeEntries(Tail(pg_hba), address)
         ELSE <<Head(pg_hba)>> \o ExcludeEntries(Tail(pg_hba), address)

\* The configuration dict kept under /db/postgres/config.
PatroniConfig(pg_hba) ==
    [postgresql |-> [use_pg_rewind |-> TRUE, pg_hba |-> pg_hba]]

RECURSIVE JsonArray(_)
\* The elements of a JSON array of strings: each string between quotes, a
\* comma between two elements.
JsonArray(list) ==
    IF list = <<>> THEN <<>>
    ELSE <<<<"\"">> \o Head(list) \o <<"\"">>>>
         \o (IF Tail(list) = <<>> THEN <<>> ELSE <<<<",">>>>)
         \o JsonArray(Tail(list))

\* json.dumps(patroni_config), as the sequence of the tokens of the text.
JsonDumps(patroni_config) ==
    <<<<"{">>, <<"postgresql", ":">>, <<"{">>,
      <<"use_pg_rewind", ":",
        IF patroni_config.postgresql.use_pg_rewind THEN "true" ELSE "false">>,
      <<",">>, <<"pg_hba", ":">>, <<"[">>>>
    \o JsonArray(patroni_config.postgresql.pg_hba)
    \o <<<<"]">>, <<"}">>, <<"}">>>>

RECURSIVE JsonStrings(_)
\* The strings of a JSON array, read up to its closing bracket.
JsonStrings(tokens) ==
    IF tokens = <<>> \/ Head(tokens) = <<"]">> THEN <<>>
    ELSE IF Head(tokens) = <<",">> THEN JsonStrings(Tail(tokens))
    ELSE <<SubSeq(Head(tokens), 2, Len(Head(tokens)) - 1)>>
         \o JsonStrings(Tail(tokens))

\* json.loads(text) of a configuration text.
JsonLoads(text) ==
    [postgresql |->
        [use_pg_rewind |-> text[4][3] = "true",
         pg_hba |-> JsonStrings(SubSeq(text, 8, Len(text)))]]

\* _set_patroni_dcs_conf: the text written to /db/postgres/config.
SetPatroniDcsConf(patroni_config) == JsonDumps(patroni_config)

\* _get_patroni_dcs_conf: the dict read from /db/postgres/config.
GetPatroniDcsConf(stored) == JsonLoads(stored)

-----------------------------------------------------------------------------
(* haproxy: configuration entries and the backends it reports *)

\* The server name 'postgresql_<addr>_5432', split at '_'.
ServerName(addr) == <<"postgresql", addr, "5432">>

\* HAPROXY_NODE_ENTRY.format(addr=address): the server line of the node.
HaproxyNodeEntry(addr) ==
    "    server postgresql_" \o addr \o "_5432 " \o addr \o ":5432 "
    \o "maxconn 100 check check-ssl port 8008 ca-file /etc/haproxy/ca.crt"

\* A row of the haproxy statistics for one backend server.
Backend(addr, status) == [svname |-> ServerName(addr), status |-> status]

RECURSIVE Replace(_, _, _)
\* str.replace(old, new) for a one-character `old`.
Replace(text, old, new) ==
    IF Len(text) = 0 THEN ""
    ELSE LET first == SubSeq(text, 1, 1)
             rest == Replace(SubSeq(text, 2, Len(text)), old, new)
         IN  IF first = old THEN new \o rest ELSE first \o rest

\* entry.replace('/', '\\/'), as the sequence of the pieces the characters of
\* the entry become: the text passed to sed is their concatenation, each
\* piece one atom of the regular expression.
EscapeSlashes(entry) ==
    [j \in 1..Len(entry) |->
        IF SubSeq(entry, j, j) = "/" THEN "\\/" ELSE SubSeq(entry, j, j)]

\* One atom of a sed regular expression against one character: '.' stands
\* for any character, a backslash makes the next character literal, any
\* other character stands for itself.
AtomMatches(atom, char) ==
    IF atom = "." THEN TRUE
    ELSE IF Len(atom) = 2 /\ SubSeq(atom, 1, 1) = "\\"
    THEN char = SubSeq(atom, 2, 2)
    ELSE char = atom

\* sed's address /pattern/: the pattern matches somewhere in the line.
Matches(line, pattern) ==
    \E i \in 0..(Len(line) - Len(pattern)) :
        \A j \in 1..Len(pattern) :
            AtomMatches(pattern[j], SubSeq(line, i + j, i + j))

\* sed -i '/<entry>/d' haproxy.cfg with the escaped entry: the lines left in
\* the file.
DeleteEntry(lines, entry) ==
    LET pattern == EscapeSlashes(entry)
        Keep(line) == ~Matches(line, pattern)
    IN  SelectSeq(lines, Keep)

\* The backends haproxy reports once restarted without the deleted server.
DropBackend(backends, addr) ==
    LET Keep(backend) == backend.svname # ServerName(addr)
    IN  SelectSeq(backends, Keep)

\* _get_patroni_id: 'pg' + ip.replace('.', '_')
GetPatroniId(ip) == "pg" \o Replace(ip, ".", "_")

\* _get_etcd_id: 'etcd' + ip.replace('.', '_')
GetEtcdId(ip) == "etcd" \o Replace(ip, ".", "_")

\* _restart_manager_db_dependent_services
RestartManagerDbDependentServices ==
    <<<<"systemctl", "restart", "haproxy">>,
      <<"systemctl", "restart", "cloudify-amqp-postgres">>,
      <<"systemctl", "restart", "cloudify-restservice">>>>

\* etcdctl member remove <node_id>: the member list afterwards.
MemberRemove(lines, node_id) ==
    LET Keep(line) == line.id # node_id
    IN  SelectSeq(lines, Keep)

-----------------------------------------------------------------------------
(* Membership operations *)

\* for i in range(30), in set_master
PollAttempts == 30

\* What a membership operation can change, as it was when the operation
\* was called.
Snapshot ==
    [etcd_members |-> etcd_members, dcs_config |-> dcs_config,
     haproxy_cfg |-> haproxy_cfg, haproxy_servers |-> haproxy_servers]

\* No membership operation has been called.
NoOp ==
    [name |-> "", address |-> NoAddress, pc |-> "idle", error |-> "",
     resolved |-> FALSE, master |-> NoAddress, replicas |-> <<>>,
     polls |-> 0, first_match |-> 0, strayed |-> FALSE,
     slept_after_match |-> FALSE,
     report |-> "", etcd_waits |-> 0,
     before |-> [etcd_members |-> <<>>, dcs_config |-> <<>>,
                 haproxy_cfg |-> <<>>, haproxy_servers |-> <<>>]]

\* The operation called with `address`, before _get_cluster_addresses.
Called(name, address) ==
    [NoOp EXCEPT !.name = name, !.address = address, !.before = Snapshot]

\* The operation once master, replicas = self._get_cluster_addresses()
\* has returned `top`.
Resolved(name, address, top) ==
    [Called(name, address) EXCEPT !.resolved = TRUE, !.master = top.master,
                                  !.replicas = top.replicas]

\* The operation raised `error`.
Raises(called, error) == [called EXCEPT !.pc = "done", !.error = error]

\* The operation returned normally.
Returns(called) == [called EXCEPT !.pc = "done"]

\* [master] + replicas without the master.
MasterAndReplicasForgetsMaster(top) == Range(top.replicas)

\* [master] + replicas
MasterAndReplicas(top) == Range(<<top.master>> \o top.replicas)

AddClusterNode(address) ==
    /\ op.pc = "idle"
    /\ \E nodes \in GetEtcdMembers(etcd_members) :
       LET called == Called("add_cluster_node", address)
           top == GetClusterAddresses(nodes)
       IN  IF DATABASE_SERVICE \in services
           THEN /\ op' = Raises(called, "should be added during install")
                /\ UNCHANGED <<haproxy_cfg, haproxy_servers, calls>>
           ELSE IF top.outcome # "ok"
           THEN /\ op' = Raises(called, top.outcome)
                /\ UNCHANGED <<haproxy_cfg, haproxy_servers, calls>>
           ELSE IF address \in MasterAndReplicas(top)
           THEN /\ op' = Raises(Resolved("add_cluster_node", address, top),
                                "already part of the cluster")
                /\ UNCHANGED <<haproxy_cfg, haproxy_servers, calls>>
           ELSE IF ~GetRawNodeStatus(address, agent, NoReply).present
           THEN /\ op' = Raises(Resolved("add_cluster_node", address, top),
                                "does not appear to be operational")
                /\ UNCHANGED <<haproxy_cfg, haproxy_servers, calls>>
           ELSE /\ haproxy_cfg' = Append(haproxy_cfg, HaproxyNodeEntry(address))
                /\ calls' = <<<<"tee", "-a", "/etc/haproxy/haproxy.cfg",
                                address>>>>
                            \o RestartManagerDbDependentServices
                /\ \E status \in {"UP", "DOWN"} :
                       haproxy_servers' =
                           Append(haproxy_servers, Backend(address, status))
                /\ op' = Returns(Resolved("add_cluster_node", address, top))
    /\ UNCHANGED <<services, etcd_health, etcd_members, patroni_dsn,
                   probeVars, verdict, dcs_config>>

\* A remove_cluster_node without the check of the master.
RemoveRefusalForgetsMaster(address, top) ==
    IF Len(top.replicas) < 2 THEN "last replica cannot be removed" ELSE ""

\* A remove_cluster_node that lets the last but one replica go.
RemoveRefusalKeepsOneReplica(address, top) ==
    IF Len(top.replicas) < 1 THEN "last replica cannot be removed"
    ELSE IF address = top.master THEN "master node cannot be removed"
    ELSE ""

\* The checks of remove_cluster_node on the resolved topology: the error
\* raised, "" when there is none.
RemoveRefusal(address, top) ==
    IF Len(top.replicas) < 2 THEN "last replica cannot be removed"
    ELSE IF address = top.master THEN "master node cannot be removed"
    ELSE ""

RemoveClusterNode(address) ==
    /\ op.pc = "idle"
    /\ \E nodes \in GetEtcdMembers(etcd_members) :
       LET called == Called("remove_cluster_node", address)
           top == GetClusterAddresses(nodes)
           resolved == Resolved("remove_cluster_node", address, top)
           node_id == MemberId(etcd_members, address)
           patroni_config == GetPatroniDcsConf(dcs_config)
       IN  IF top.outcome # "ok"
           THEN /\ op' = Raises(called, top.outcome)
                /\ UNCHANGED <<etcd_members, dcs_config, haproxy_cfg,
                               haproxy_servers, calls>>
           ELSE IF RemoveRefusal(address, top) # ""
           THEN /\ op' = Raises(resolved, RemoveRefusal(address, top))
                /\ UNCHANGED <<etcd_members, dcs_config, haproxy_cfg,
                               haproxy_servers, calls>>
           ELSE IF DATABASE_SERVICE \in services
           THEN IF node_id = NoAddress
                THEN /\ op' = Raises(resolved, "cannot find node")
                     /\ UNCHANGED <<etcd_members, dcs_config, haproxy_cfg,
                                    haproxy_servers, calls>>
                ELSE /\ etcd_members' = MemberRemove(etcd_members, node_id)
                     /\ dcs_config' = SetPatroniDcsConf(
                            [patroni_config EXCEPT !.postgresql.pg_hba =
                                 ExcludeEntries(@, address)])
                     /\ calls' = <<<<"etcdctl", "member", "remove", node_id>>,
                                   <<"etcdctl", "set", "/db/postgres/config">>>>
                     /\ op' = Returns(resolved)
                     /\ UNCHANGED <<haproxy_cfg, haproxy_servers>>
           ELSE /\ haproxy_cfg' = DeleteEntry(haproxy_cfg,
                                              HaproxyNodeEntry(address))
                /\ haproxy_servers' = DropBackend(haproxy_servers, address)
                /\ calls' = <<<<"sed", "-i", "/etc/haproxy/haproxy.cfg",
                                address>>>>
                            \o RestartManagerDbDependentServices
                /\ op' = Returns(resolved)
                /\ UNCHANGED <<etcd_members, dcs_config>>
    /\ UNCHANGED <<services, etcd_health, patroni_dsn, probeVars, verdict>>

\* A patroni command issued before the role of the caller is looked at.
PatroniCommandBeforeRoleCheck(address, top) ==
    /\ top.outcome = "ok"
    /\ address # top.master
    /\ address \in MasterAndReplicas(top)

\* A patroni command issued for the master as for any other member.
PatroniCommandForMaster(address, top) ==
    /\ top.outcome = "ok"
    /\ address \in MasterAndReplicas(top)
    /\ DATABASE_SERVICE \in services

\* reinit_cluster_node and set_master reach their patroni command: the
\* topology was resolved, neither check raised, and the node is a database
\* node.
PatroniCommandIssued(address, top) ==
    /\ top.outcome = "ok"
    /\ address # top.master
    /\ address \in MasterAndReplicas(top)
    /\ DATABASE_SERVICE \in services

ReinitClusterNode(address) ==
    /\ op.pc = "idle"
    /\ \E nodes \in GetEtcdMembers(etcd_members) :
       LET called == Called("reinit_cluster_node", address)
           top == GetClusterAddresses(nodes)
           resolved == Resolved("reinit_cluster_node", address, top)
       IN  /\ op' = IF top.outcome # "ok" THEN Raises(called, top.outcome)
                    ELSE IF address = top.master
                    THEN Raises(resolved, "master cannot be reinitialised")
                    ELSE IF address \notin MasterAndReplicas(top)
                    THEN Raises(resolved, "not part of the cluster")
                    ELSE IF DATABASE_SERVICE \in services
                    THEN Returns(resolved)
                    ELSE Raises(resolved, "only from a DB node")
           /\ calls' = IF PatroniCommandIssued(address, top)
                       THEN <<<<"patronictl", "reinit", "--force", "postgres",
                                GetPatroniId(address)>>>>
                       ELSE calls
    /\ UNCHANGED <<sourceVars, probeVars, verdict, dcs_config, haproxy_cfg>>

\* set_master up to the switchover command; the polls follow.
SetMaster(address) ==
    /\ op.pc = "idle"
    /\ \E nodes \in GetEtcdMembers(etcd_members) :
       LET called == Called("set_master", address)
           top == GetClusterAddresses(nodes)
           resolved == Resolved("set_master", address, top)
       IN  /\ op' = IF top.outcome # "ok" THEN Raises(called, top.outcome)
                    ELSE IF address = top.master
                    THEN Raises(resolved, "is the current master")
                    ELSE IF address \notin MasterAndReplicas(top)
                    THEN Raises(resolved, "not part of the cluster")
                    ELSE IF DATABASE_SERVICE \in services
                    THEN [resolved EXCEPT !.pc = "polling"]
                    ELSE Raises(resolved, "only from a DB node")
           /\ calls' = IF PatroniCommandIssued(address, top)
                       THEN <<<<"patronictl", "switchover", "--force",
                                "--candidate", GetPatroniId(address)>>>>
                       ELSE calls
    /\ UNCHANGED <<sourceVars, probeVars, verdict, dcs_config, haproxy_cfg>>

\* What the data sources can show at a poll: patroni's leader may be any
\* member or none, and etcd may have lost its quorum.
PolledDsns == {NoDsn} \cup {Dsn(ip) : ip \in Range(MemberIps(etcd_members))}
PolledHealth == {"member is healthy", "cluster is unavailable"}

\* One iteration of the loop of set_master: a poll of the cluster addresses
\* and, while the master is not the address, a sleep of one second.
SetMasterPoll ==
    /\ op.pc = "polling"
    /\ op.polls < PollAttempts
    /\ \E dsn \in PolledDsns, health \in PolledHealth :
         /\ patroni_dsn' = dsn
         /\ etcd_health' = health
         /\ LET top == ClusterAddresses(services, health,
                                        MemberIps(etcd_members), dsn,
                                        haproxy_servers)
                i == op.polls + 1
            IN  op' = IF top.outcome # "ok"
                      THEN Raises([op EXCEPT !.polls = i], top.outcome)
                      ELSE [op EXCEPT
                              !.polls = i,
                              !.master = top.master,
                              !.first_match =
                                  IF @ = 0 /\ top.master = op.address
                                  THEN i ELSE @,
                              !.strayed =
                                  @ \/ (op.first_match # 0
                                        /\ top.master # op.address),
                              !.slept_after_match =
                                  IF top.master # op.address
                                  THEN op.first_match # 0 ELSE @]
    /\ UNCHANGED <<services, etcd_members, haproxy_servers, probeVars,
                   verdict, dcs_config, haproxy_cfg, calls>>

\* set_master after the loop: the message logged.
SetMasterReport ==
    /\ op.pc = "polling"
    /\ op.polls = PollAttempts
    /\ op' = [op EXCEPT !.pc = "done",
                        !.report = IF op.master = op.address
                                   THEN "Master changed"
                                   ELSE "Master has not changed"]
    /\ UNCHANGED <<sourceVars, probeVars, verdict, dcs_config, haproxy_cfg,
                   calls>>

-----------------------------------------------------------------------------
(* The status query over every topology and every probe outcome *)

MasterStates == {"running", "stopped"}
ReplicaStates == {"running"}
\* Timelines matter through equality with the primary's only.
MasterTimelines == {None, Some(1)}
ReplicaTimelines == {Some(1), Some(2)}
\* 2097153 - 1 is a lag of exactly 2 MiB, 2097153 - 0 one byte more.
MasterLocations == {Some(0), Some(1), Some(2097153)}
ReplicaLocations == {Some(0), Some(1)}
EtcdReplies ==
    {NoEtcdReply} \cup
    {[present |-> TRUE, state |-> s] : s \in {"StateLeader", "StateFollower"}}

\* The primary's view of its standbys: with synchronous_standby_names = '*'
\* at most one standby is sync, the others are potential.
Replications(addresses) ==
    {<<>>} \cup
    {[i \in 1..Len(addresses) |->
        [client_addr |-> addresses[i],
         sync_state |-> IF i = k THEN "sync" ELSE "potential"]]
     : k \in 1..Len(addresses)}

MasterReplies(addresses) ==
    {NoReply} \cup
    [present : {TRUE}, state : MasterStates, timeline : MasterTimelines,
     location : MasterLocations, replayed_location : {None},
     replication : Replications(addresses)]

ReplicaReplies ==
    {NoReply} \cup
    [present : {TRUE}, state : ReplicaStates, timeline : ReplicaTimelines,
     location : {None}, replayed_location : ReplicaLocations,
     replication : {<<>>}]

MemberLines(k) == [i \in 1..k |-> [id |-> "id" \o ToString(i), ip |-> Addr(i)]]


InitStatus ==
    /\ services = {DATABASE_SERVICE}
    /\ etcd_health = "member is healthy"
    /\ haproxy_servers = <<>>
    /\ verdict = NotRun
    /\ dcs_config = <<>>
    /\ haproxy_cfg = <<>>
    /\ calls = <<>>
    /\ op = NoOp
    /\ probe = NoProbe
    /\ auth = NoAuth
    /\ \E k \in 1..(MaxReplicas + 1), resolved \in BOOLEAN :
         /\ resolved \/ k <= MaxReplicas
         /\ etcd_members = MemberLines(k)
         /\ patroni_dsn = IF resolved THEN Dsn(Addr(1)) ELSE NoDsn
         /\ LET replica_addresses ==
                    IF resolved THEN [i \in 1..(k - 1) |-> Addr(i + 1)]
                    ELSE [i \in 1..k |-> Addr(i)]
            IN  /\ \E m \in (IF resolved THEN MasterReplies(replica_addresses)
                             ELSE {NoReply}),
                      rs \in [Range(replica_addresses) -> ReplicaReplies] :
                      agent = IF resolved THEN (Addr(1) :> m) @@ rs ELSE rs
                /\ etcd_stats \in
                      [{Addr(i) : i \in 1..k} -> EtcdReplies]

NextStatus == GetClusterStatus

SpecStatus == InitStatus /\ [][NextStatus]_vars

-----------------------------------------------------------------------------
(* The membership operations over every cluster a node can see *)

\* The addresses an operation can be called with: every address that can be
\* in the cluster, and one that never is.
Addresses == {Addr(i) : i \in 1..(MaxReplicas + 2)}

NodeList(k) == [i \in 1..k |-> Addr(i)]

Backends(k, up) ==
    [i \in 1..k |-> Backend(Addr(i), IF i \in up THEN "UP" ELSE "DOWN")]

HaproxyCfg(k) == [i \in 1..k |-> HaproxyNodeEntry(Addr(i))]

AliveReply == [NoReply EXCEPT !.present = TRUE, !.state = "running"]

\* A database node: etcd and patroni are local, haproxy is not installed.
InitDatabaseNode ==
    /\ services = {DATABASE_SERVICE}
    /\ etcd_health \in {"member is healthy", "cluster is unavailable",
                        "failed to list members"}
    /\ \E k \in 0..(MaxReplicas + 1) : etcd_members = MemberLines(k)
    /\ patroni_dsn \in {NoDsn, [Dsn(Addr(1)) EXCEPT !.port = 5433],
                        [Dsn(Addr(2)) EXCEPT !.port = 54321]}
                       \cup {Dsn(Addr(i)) : i \in 1..(MaxReplicas + 1)}
    /\ haproxy_servers = <<>>
    /\ haproxy_cfg = <<>>
    /\ agent = [a \in Addresses |-> AliveReply]

\* A manager node: it sees the cluster through haproxy only. haproxy has a
\* server line for each node, and possibly a second line for a node that
\* was added again, or one more option on the line of a node.
InitManagerNode ==
    /\ services = {MANAGER_SERVICE}
    /\ etcd_health = ""
    /\ etcd_members = <<>>
    /\ patroni_dsn = NoDsn
    /\ \E k \in 0..(MaxReplicas + 1), up \in SUBSET (1..(MaxReplicas + 1)) :
         /\ up \subseteq 1..k
         /\ \/ /\ haproxy_servers = Backends(k, up)
               /\ haproxy_cfg = HaproxyCfg(k)
            \/ \E i \in 1..k, status \in {"UP", "DOWN"} :
                 /\ haproxy_servers =
                        Append(Backends(k, up), Backend(Addr(i), status))
                 /\ haproxy_cfg =
                        Append(HaproxyCfg(k), HaproxyNodeEntry(Addr(i)))
            \/ \E i \in 1..k :
                 /\ haproxy_servers = Backends(k, up)
                 /\ haproxy_cfg =
                        [HaproxyCfg(k) EXCEPT ![i] = @ \o " backup"]
    /\ \E responding \in {{}, Addresses} :
         agent = [a \in Addresses |->
                     IF a \in responding THEN AliveReply ELSE NoReply]

\* A node with neither role.
InitOtherNode ==
    /\ services = {}
    /\ etcd_health = ""
    /\ etcd_members = <<>>
    /\ patroni_dsn = NoDsn
    /\ haproxy_servers = <<>>
    /\ haproxy_cfg = <<>>
    /\ agent = [a \in Addresses |-> AliveReply]

\* The configuration blob: the bootstrap pg_hba of the configured nodes.
InitDcsConfig ==
    \E k \in 0..(MaxReplicas + 1), ssl_client_verification \in BOOLEAN :
        dcs_config = SetPatroniDcsConf(PatroniConfig(
            BootstrapPgHba(DefaultPgHba(ssl_client_verification),
                           NodeList(k))))

-----------------------------------------------------------------------------
(* The life cycle of the component on a database node: configure, start,
   stop, remove *)

\* The replies of the nodes, with the reply of one of them replaced.
Answers(replies, address, reply) ==
    [a \in DOMAIN replies |-> IF a = address THEN reply ELSE replies[a]]

\* The member list once `etcdctl member add` has been accepted and the new
\* member has started: one more line, under an id etcd gives it.
MemberAdd(lines, ip) ==
    Append(lines, [id |-> "id" \o ToString(Len(lines) + 1), ip |-> ip])

\* any(' <ip>/32 ' in entry for entry in patroni_conf['postgresql']['pg_hba'])
InPgHba(patroni_conf, node_ip) ==
    \E i \in 1..Len(patroni_conf.postgresql.pg_hba) :
        ExclusionStringIn(node_ip, patroni_conf.postgresql.pg_hba[i])

\* The passes of the loop of _start_etcd that sleep, at most.
MaxEtcdWaits == 2

\* _configure_cluster up to the loop of _start_etcd: postgres is handed
\* over to patroni and the start of etcd is asked for. The certificates and
\* files deployed are left out.
StartEtcdCalls ==
    <<<<"systemctl", "stop", "postgresql-11">>,
      <<"systemctl", "disable", "postgresql-11">>,
      <<"systemctl", "enable", "etcd">>,
      <<"systemctl", "start", "etcd", "--no-block">>>>

\* configure() without cluster nodes: _init_postgresql_server enables
\* postgres and restarts it twice, configure restarts it once more. The
\* files written in between are left out.
StandaloneCalls ==
    <<<<"systemctl", "enable", "postgresql-11">>,
      <<"systemctl", "restart", "postgresql-11">>,
      <<"systemctl", "restart", "postgresql-11">>,
      <<"systemctl", "restart", "postgresql-11">>>>

\* _configure_cluster when etcd asks for no authentication: the users and
\* roles are created and authentication is enabled.
EtcdAuthCalls ==
    <<<<"etcdctl", "user", "add", "root">>,
      <<"etcdctl", "user", "add", "patroni">>,
      <<"etcdctl", "role", "add", "patroni">>,
      <<"etcdctl", "role", "grant", "patroni", "--path", "/db/*",
        "--readwrite">>,
      <<"etcdctl", "user", "grant", "patroni", "--roles", "patroni">>,
      <<"etcdctl", "role", "add", "guest">>,
      <<"etcdctl", "role", "revoke", "guest", "--path", "/*", "--readwrite">>,
      <<"etcdctl", "auth", "enable">>>>

\* _configure_cluster, the end: patroni is enabled and started.
StartPatroniCalls ==
    <<<<"systemctl", "enable", "patroni">>,
      <<"systemctl", "start", "patroni">>>>

\* The commands that join the node to the etcd cluster.
JoinEtcdCalls(node_ip) ==
    <<<<"etcdctl", "member", "add", GetEtcdId(node_ip),
        "https://" \o node_ip \o ":2380">>,
      <<"sed", "-i", "/etc/etcd/etcd.conf",
        "ETCD_INITIAL_CLUSTER_STATE='existing'">>,
      <<"systemctl", "restart", "etcd">>>>

\* configure() on the database node whose private ip is `node_ip`, up to the
\* loop of _start_etcd. `cluster_nodes` tells whether the configuration
\* lists cluster nodes; without them the node is set up on its own and the
\* function returns.
Configure(node_ip, cluster_nodes) ==
    /\ op.pc = "idle"
    /\ DATABASE_SERVICE \in services
    /\ IF cluster_nodes
       THEN /\ calls' = StartEtcdCalls
            /\ op' = [Called("configure", node_ip) EXCEPT
                          !.pc = "starting etcd"]
       ELSE /\ calls' = StandaloneCalls
            /\ op' = Returns(Called("configure", node_ip))
    /\ UNCHANGED <<sourceVars, probeVars, verdict, dcs_config, haproxy_cfg>>

\* start() on the database node `node_ip`, up to the loop of _start_etcd:
\* postgres is started, and on a cluster node the start of etcd is asked for.
Start(node_ip, cluster_nodes) ==
    /\ op.pc = "idle"
    /\ DATABASE_SERVICE \in services
    /\ IF cluster_nodes
       THEN /\ calls' = <<<<"systemctl", "start", "postgresql-11">>,
                          <<"systemctl", "start", "etcd", "--no-block">>>>
            /\ op' = [Called("start", node_ip) EXCEPT !.pc = "starting etcd"]
       ELSE /\ calls' = <<<<"systemctl", "start", "postgresql-11">>>>
            /\ op' = Returns(Called("start", node_ip))
    /\ UNCHANGED <<sourceVars, probeVars, verdict, dcs_config, haproxy_cfg>>

\* _etcd_is_running: status in ('active', 'activating')
EtcdIsRunning(status) == status \in {"active", "activating"}

\* One pass of the loop of _start_etcd: the query of systemctl is-active
\* etcd and, while etcd is not running, a sleep of one second. Once it runs,
\* configure() goes on to _etcd_requires_auth, up to its loop.
StartEtcd(status) ==
    /\ op.pc = "starting etcd"
    /\ IF ~EtcdIsRunning(status)
       THEN /\ op.etcd_waits < MaxEtcdWaits
            /\ op' = [op EXCEPT !.etcd_waits = @ + 1]
            /\ UNCHANGED auth
       ELSE IF op.name = "configure"
       THEN /\ op' = [op EXCEPT !.pc = "requires auth"]
            /\ auth' = [NoAuth EXCEPT !.pc = "running"]
       ELSE /\ op' = [op EXCEPT !.pc = "etcd started"]
            /\ UNCHANGED auth
    /\ UNCHANGED <<sourceVars, agent, etcd_stats, probe, verdict, dcs_config,
                   haproxy_cfg, calls>>

\* _configure_cluster once _etcd_requires_auth has returned or raised.
\* `healthy` tells whether cluster-health reports a healthy result from the
\* node, `accepted` whether etcd accepts the new member. etcd reports on its
\* members only, and refuses a peer address it already has.
ConfigureCluster(healthy, accepted) ==
    /\ op.name = "configure"
    /\ op.pc = "requires auth"
    /\ auth.pc = "done"
    /\ healthy => op.address \in Range(MemberIps(etcd_members))
    /\ accepted => op.address \notin Range(MemberIps(etcd_members))
    /\ LET node_ip == op.address
           patroni_conf == GetPatroniDcsConf(dcs_config)
           listed == InPgHba(patroni_conf, node_ip)
           set_conf ==
               IF listed THEN <<>>
               ELSE <<<<"etcdctl", "set", "/db/postgres/config">>>>
           joined_conf ==
               IF listed THEN dcs_config
               ELSE SetPatroniDcsConf(
                        [patroni_conf EXCEPT !.postgresql.pg_hba =
                             AddNodeToPgHba(@, node_ip)])
       IN  IF auth.result = "ClusteringError"
           THEN /\ calls' = calls \o StartPatroniCalls
                /\ op' = Returns(op)
                /\ UNCHANGED <<etcd_members, dcs_config>>
           ELSE IF auth.result = "False"
           THEN /\ calls' = calls \o EtcdAuthCalls \o StartPatroniCalls
                /\ op' = Returns(op)
                /\ UNCHANGED <<etcd_members, dcs_config>>
           ELSE IF healthy
           THEN /\ dcs_config' = joined_conf
                /\ calls' = calls \o set_conf \o StartPatroniCalls
                /\ op' = Returns(op)
                /\ UNCHANGED etcd_members
           ELSE IF ~accepted
           THEN /\ dcs_config' = joined_conf
                /\ calls' = calls \o set_conf
                            \o <<JoinEtcdCalls(node_ip)[1]>>
                /\ op' = Raises(op, "Failed to join etcd cluster")
                /\ UNCHANGED etcd_members
           ELSE /\ dcs_config' = joined_conf
                /\ etcd_members' = MemberAdd(etcd_members, node_ip)
                /\ calls' = calls \o set_conf \o JoinEtcdCalls(node_ip)
                            \o StartPatroniCalls
                /\ op' = Returns(op)
    /\ UNCHANGED <<services, etcd_health, patroni_dsn, haproxy_servers,
                   haproxy_cfg, probeVars, verdict>>

\* start() on a cluster node once etcd runs: patroni is started, and the
\* node answers again. Whether etcd finds its quorum depends on the other
\* members.
StartPatroni(health, etcd_reply) ==
    /\ op.name = "start"
    /\ op.pc = "etcd started"
    /\ calls' = Append(calls, <<"systemctl", "start", "patroni">>)
    /\ etcd_health' = health
    /\ agent' = Answers(agent, op.address, AliveReply)
    /\ etcd_stats' = Answers(etcd_stats, op.address, etcd_reply)
    /\ op' = Returns(op)
    /\ UNCHANGED <<services, etcd_members, patroni_dsn, haproxy_servers,
                   haproxy_cfg, dcs_config, probe, auth, verdict>>

\* stop() on the database node `node_ip`: on a cluster node etcd and patroni
\* are stopped after postgres, and answer no more.
Stop(node_ip, cluster_nodes) ==
    /\ op.pc = "idle"
    /\ DATABASE_SERVICE \in services
    /\ calls' = <<<<"systemctl", "stop", "postgresql-11">>>>
                \o (IF cluster_nodes
                    THEN <<<<"systemctl", "stop", "etcd">>,
                           <<"systemctl", "stop", "patroni">>>>
                    ELSE <<>>)
    /\ IF cluster_nodes
       THEN /\ etcd_health' = "failed to list members"
            /\ agent' = Answers(agent, node_ip, NoReply)
            /\ etcd_stats' = Answers(etcd_stats, node_ip, NoEtcdReply)
       ELSE UNCHANGED <<etcd_health, agent, etcd_stats>>
    /\ op' = Returns(Called("stop", node_ip))
    /\ UNCHANGED <<services, etcd_members, patroni_dsn, haproxy_servers,
                   haproxy_cfg, dcs_config, probe, auth, verdict>>

\* remove() on the database node `node_ip`: without the manager service on
\* the node, etcd and patroni are removed before postgres, and answer no
\* more.
Remove(node_ip) ==
    /\ op.pc = "idle"
    /\ DATABASE_SERVICE \in services
    /\ calls' = (IF MANAGER_SERVICE \notin services
                 THEN <<<<"yum", "remove", "etcd">>,
                        <<"yum", "remove", "patroni">>,
                        <<"systemd", "remove", "patroni">>>>
                 ELSE <<>>)
                \o <<<<"systemd", "remove", "postgresql-11">>,
                     <<"yum", "remove", "postgresql11">>,
                     <<"yum", "remove", "postgresql11-libs">>>>
    /\ IF MANAGER_SERVICE \notin services
       THEN /\ etcd_health' = "failed to list members"
            /\ agent' = Answers(agent, node_ip, NoReply)
            /\ etcd_stats' = Answers(etcd_stats, node_ip, NoEtcdReply)
       ELSE UNCHANGED <<etcd_health, agent, etcd_stats>>
    /\ op' = Returns(Called("remove", node_ip))
    /\ UNCHANGED <<services, etcd_members, patroni_dsn, haproxy_servers,
                   haproxy_cfg, dcs_config, probe, auth, verdict>>

\* What `etcdctl ls /` answers while a node is configured: one answer for each
\* branch of the loop of _etcd_requires_auth.
ConfigureAuthReplies ==
    {[returncode |-> 0, aggr_stderr |-> <<>>],
     [returncode |-> 1, aggr_stderr |-> <<"client:", "connection refused">>],
     [returncode |-> 4,
      aggr_stderr |-> <<"Insufficient credentials:", "user authentication",
                        "required">>]}

\* _etcd_requires_auth as a part of configure(): one pass of its loop.
ConfigureRequiresAuth(cluster_auth_check) ==
    /\ op.pc = "requires auth"
    /\ EtcdRequiresAuthAttempt(cluster_auth_check)

\* _etcd_requires_auth as a part of configure(): the ClusteringError raised
\* after the loop, which _configure_cluster catches.
ConfigureRequiresAuthRaise ==
    /\ op.pc = "requires auth"
    /\ EtcdRequiresAuthRaise

\* The life cycle over every node, configuration and answer of systemd and
\* etcd.
NextLifecycle ==
    \/ \E node_ip \in Addresses, cluster_nodes \in BOOLEAN :
           \/ Configure(node_ip, cluster_nodes)
           \/ Start(node_ip, cluster_nodes)
           \/ Stop(node_ip, cluster_nodes)
           \/ Remove(node_ip)
    \/ \E status \in {"active", "activating", "inactive"} : StartEtcd(status)
    \/ \E cluster_auth_check \in ConfigureAuthReplies :
           ConfigureRequiresAuth(cluster_auth_check)
    \/ ConfigureRequiresAuthRaise
    \/ \E healthy, accepted \in BOOLEAN : ConfigureCluster(healthy, accepted)
    \/ \E health \in {"member is healthy", "cluster is unavailable"},
          etcd_reply \in EtcdReplies \ {NoEtcdReply} :
           StartPatroni(health, etcd_reply)

-----------------------------------------------------------------------------
(* The specifications of the operations *)

InitMembers ==
    /\ verdict = NotRun
    /\ etcd_stats = <<>>
    /\ calls = <<>>
    /\ op = NoOp
    /\ probe = NoProbe
    /\ auth = NoAuth
    /\ \/ InitDatabaseNode /\ InitDcsConfig
       \/ InitManagerNode /\ dcs_config = <<>>
       \/ InitOtherNode /\ dcs_config = <<>>

NextMembers ==
    \/ \E address \in Addresses :
           \/ AddClusterNode(address)
           \/ RemoveClusterNode(address)
           \/ ReinitClusterNode(address)
    \/ NextLifecycle

SpecMembers == InitMembers /\ [][NextMembers]_vars

\* set_master, on a node whose configuration blob is the bootstrap one.
InitSetMaster ==
    /\ verdict = NotRun
    /\ etcd_stats = <<>>
    /\ calls = <<>>
    /\ op = NoOp
    /\ probe = NoProbe
    /\ auth = NoAuth
    /\ \/ /\ InitDatabaseNode
          /\ dcs_config = SetPatroniDcsConf(PatroniConfig(
                 BootstrapPgHba(DefaultPgHba(FALSE),
                                NodeList(MaxReplicas + 1))))
       \/ InitManagerNode /\ dcs_config = <<>>
       \/ InitOtherNode /\ dcs_config = <<>>

NextSetMaster ==
    \/ \E address \in Addresses : SetMaster(address)
    \/ SetMasterPoll
    \/ SetMasterReport

SpecSetMaster == InitSetMaster /\ [][NextSetMaster]_vars

\* The membership operations and the life cycle together.
NextOperations == NextMembers \/ NextSetMaster

SpecOperations == InitSetMaster /\ [][NextOperations]_vars

-----------------------------------------------------------------------------
(* _get_raw_node_status over every address, target and response *)

InitProbe ==
    /\ services \in {{DATABASE_SERVICE}, {MANAGER_SERVICE}, {}}
    /\ etcd_health = ""
    /\ etcd_members = <<>>
    /\ patroni_dsn = NoDsn
    /\ haproxy_servers = <<>>
    /\ haproxy_cfg = <<>>
    /\ dcs_config = <<>>
    /\ agent = <<>>
    /\ etcd_stats = <<>>
    /\ verdict = NotRun
    /\ calls = <<>>
    /\ op = NoOp
    /\ probe = NoProbe
    /\ auth = NoAuth

NextProbe ==
    \E address \in Addresses \cup {NoAddress}, target_type \in {"DB", "etcd"},
       response \in Responses :
        GetRawNodeStatusCall(address, target_type, response)

SpecProbe == InitProbe /\ [][NextProbe]_vars

-----------------------------------------------------------------------------
(* _etcd_requires_auth over every sequence of answers of etcd *)

InitAuth ==
    /\ services = {DATABASE_SERVICE}
    /\ etcd_health = ""
    /\ etcd_members = <<>>
    /\ patroni_dsn = NoDsn
    /\ haproxy_servers = <<>>
    /\ haproxy_cfg = <<>>
    /\ dcs_config = <<>>
    /\ agent = <<>>
    /\ etcd_stats = <<>>
    /\ verdict = NotRun
    /\ calls = <<>>
    /\ op = NoOp
    /\ probe = NoProbe
    /\ auth = NoAuth

NextAuth ==
    \/ EtcdRequiresAuthCall
    \/ \E cluster_auth_check \in AuthReplies :
           EtcdRequiresAuthAttempt(cluster_auth_check)
    \/ EtcdRequiresAuthRaise

\* The code of the function runs on once it is called.
SpecAuth == InitAuth /\ [][NextAuth]_vars /\ WF_vars(NextAuth)

-----------------------------------------------------------------------------
(* Properties of the status query (SpecStatus) *)

\* The last status query ran _determine_cluster_status.
Evaluated == verdict.phase = "done" /\ verdict.input # <<>>
Returned == Evaluated /\ verdict.outcome = "returned"
InMaster == verdict.input[1]
InReplicas == Tail(verdict.input)
\* The replica records after the evaluation, errors included.
OutReplicas ==
    IF InMaster.node_ip = NoAddress THEN verdict.db_nodes
    ELSE Tail(verdict.db_nodes)
EtcdLeaders == CountEtcd(EvaluatedNodes(verdict.input), "StateLeader")
EtcdFollowers == CountEtcd(EvaluatedNodes(verdict.input), "StateFollower")

\* The replica's log position is numerically less than the primary's.
Behind(replica) ==
    /\ replica.log_location # None
    /\ InMaster.log_location # None
    /\ replica.log_location[1] < InMaster.log_location[1]

\* Both log positions are known and the replica's is not behind.
NotBehind(replica) ==
    /\ replica.log_location # None
    /\ InMaster.log_location # None
    /\ replica.log_location[1] >= InMaster.log_location[1]

\* C1: within one run of _determine_cluster_status the status starts at
\* HEALTHY, is never lower after a check than before it, stays DOWN once it
\* is DOWN, and the value at the end is the last value of that sequence.
C1_StatusNeverDecreases ==
    Evaluated =>
        /\ verdict.trace[1] = HEALTHY
        /\ \A i \in 1..(Len(verdict.trace) - 1) :
               /\ verdict.trace[i] <= verdict.trace[i + 1]
               /\ verdict.trace[i] = DOWN => verdict.trace[i + 1] = DOWN
        /\ verdict.status = verdict.trace[Len(verdict.trace)]

\* C1 witness: the etcd follower check raised the status to DEGRADED, a
\* lagging sync replica then raised it to DOWN, and a later replica off the
\* primary's timeline asked for DEGRADED once more.
C1_Witness ==
    /\ Returned
    /\ Len(InReplicas) = 2
    /\ verdict.trace[6] = DEGRADED
    /\ verdict.trace[7] = DOWN
    /\ InReplicas[2].state = "async_replica"
    /\ "Out of sync" \in Range(OutReplicas[2].errors)
    /\ verdict.status = DOWN

\* The conditions C2 lists: primary resolved and alive, at least one sync
\* replica reported, no sync replica behind, exactly one etcd leader, and
\* etcd followers at least floor(member_count / 2) and at least the number
\* of replicas.
C2_Listed ==
    /\ Evaluated
    /\ InMaster.node_ip # NoAddress
    /\ InMaster.alive
    /\ GetSyncReplicas(InMaster.raw_status) # <<>>
    /\ \A i \in 1..Len(InReplicas) :
           InReplicas[i].state = "sync_replica" => NotBehind(InReplicas[i])
    /\ EtcdLeaders = 1
    /\ EtcdFollowers >= (1 + Len(InReplicas)) \div 2
    /\ EtcdFollowers >= Len(InReplicas)

\* C2 as stated: under the listed conditions the verdict returned is
\* HEALTHY.
C2_ListedImpliesHealthy ==
    C2_Listed /\ Returned => verdict.status = HEALTHY

\* C2 amended: under the listed conditions, and when every replica that is
\* not a sync replica reports the primary's timeline, no check raises the
\* status: it is HEALTHY after every check, so HEALTHY is the only verdict
\* returned.
C2_ListedOnTimelineImpliesHealthy ==
    /\ C2_Listed
    /\ \A i \in 1..Len(InReplicas) :
           InReplicas[i].state # "sync_replica"
               => InReplicas[i].timeline = InMaster.timeline
    => /\ \A i \in 1..Len(verdict.trace) : verdict.trace[i] = HEALTHY
       /\ verdict.status = HEALTHY

\* C2 witness: a healthy cluster of a primary, a sync replica and an
\* asynchronous replica on the primary's timeline is reported HEALTHY.
C2_Witness ==
    /\ C2_Listed
    /\ Returned
    /\ Len(InReplicas) = 2
    /\ \E i \in 1..2 : InReplicas[i].state = "sync_replica"
    /\ \E i \in 1..2 :
           /\ InReplicas[i].state = "async_replica"
           /\ InReplicas[i].timeline = InMaster.timeline
           /\ Truthy(InMaster.timeline)
    /\ verdict.status = HEALTHY

\* Everything but the number of etcd leaders is healthy: the primary is
\* resolved and alive and reports a sync replica, every node answers both
\* probes and is an etcd leader or follower, no sync replica is behind, and
\* every other replica is on the primary's timeline.
OtherwiseHealthy ==
    /\ Evaluated
    /\ InMaster.node_ip # NoAddress
    /\ InMaster.alive
    /\ GetSyncReplicas(InMaster.raw_status) # <<>>
    /\ \A i \in 1..Len(verdict.input) :
           verdict.input[i].etcd_state \in {"StateLeader", "StateFollower"}
    /\ \A i \in 1..Len(InReplicas) :
           /\ InReplicas[i].alive
           /\ NotBehind(InReplicas[i])
              \/ (InReplicas[i].state = "async_replica"
                  /\ InReplicas[i].log_location # None)
           /\ InReplicas[i].state = "async_replica"
                  => InReplicas[i].timeline = InMaster.timeline

\* C6: when everything else is healthy and the number of evaluated nodes in
\* etcd state leader is 0 or at least 2, the verdict returned is DOWN.
C6_LeaderCountNotOneIsDown ==
    OtherwiseHealthy /\ EtcdLeaders # 1
        => verdict.outcome = "returned" /\ verdict.status = DOWN

\* C6 witness: two etcd leaders and one follower among three healthy nodes;
\* the follower check alone asks for DEGRADED only.
C6_Witness ==
    /\ OtherwiseHealthy
    /\ Len(InReplicas) = 2
    /\ EtcdLeaders = 2
    /\ EtcdFollowers = 1
    /\ verdict.status = DOWN

\* C7 as stated: whenever a replica classified sync_replica has a log
\* position numerically less than the primary's, the verdict returned is
\* DOWN and that replica's errors contain "Out of sync".
C7_SyncBehindIsDown ==
    Evaluated =>
        \A i \in 1..Len(InReplicas) :
            InReplicas[i].state = "sync_replica" /\ Behind(InReplicas[i])
                => /\ verdict.outcome = "returned"
                   /\ verdict.status = DOWN
                   /\ "Out of sync" \in Range(OutReplicas[i].errors)

\* C11 as stated: when no primary is resolved and there is at least one
\* replica, the status query completes and returns DOWN with the replica
\* records, the etcd checks having counted the replicas only and every
\* comparison with the missing primary position or timeline being skipped.
C11_UnresolvedMasterIsDown ==
    (Evaluated /\ InMaster.node_ip = NoAddress /\ Len(InReplicas) >= 1) =>
        /\ verdict.outcome = "returned"
        /\ verdict.status = DOWN
        /\ Len(verdict.db_nodes) = Len(InReplicas)
        /\ \A i \in 1..Len(InReplicas) :
               /\ verdict.db_nodes[i].node_ip = InReplicas[i].node_ip
               /\ verdict.db_nodes[i].errors = InReplicas[i].errors

\* The addresses _get_cluster_addresses resolved for the last status query.
ResolvedAddresses ==
    [i \in 1..Len(EvaluatedNodes(verdict.input)) |->
        EvaluatedNodes(verdict.input)[i].node_ip]

\* C12 as stated: whatever nodes are reachable, the status query ends with
\* a verdict and one record for each resolved address, the unreachable
\* nodes being listed with alive = false; it never ends in an error.
C12_AlwaysAVerdict ==
    Evaluated =>
        /\ verdict.outcome = "returned"
        /\ verdict.status \in {HEALTHY, DEGRADED, DOWN}
        /\ [i \in 1..Len(verdict.db_nodes) |-> verdict.db_nodes[i].node_ip]
               = ResolvedAddresses
        /\ \A i \in 1..Len(verdict.db_nodes) :
               ~verdict.db_nodes[i].raw_status.present
                   => ~verdict.db_nodes[i].alive

\* The loop of _determine_cluster_status made its pass on replica i, and the
\* pass raised no exception.
PassCompleted(i) ==
    /\ Len(verdict.trace) >= 6 + i
    /\ verdict.outcome = "TypeError" => Len(verdict.trace) > 6 + i

\* Replica i is asynchronous, on the primary's timeline, and its log
\* position and the primary's are both known.
AsyncOnTimeline(i) ==
    /\ InReplicas[i].state = "async_replica"
    /\ InReplicas[i].timeline = InMaster.timeline
    /\ InReplicas[i].log_location # None
    /\ InMaster.log_location # None

\* Primary log position minus the log position of replica i, in bytes.
LagBytes(i) == InMaster.log_location[1] - InReplicas[i].log_location[1]

\* C13: for an asynchronous replica on the primary's timeline the lag check
\* leaves the status as the earlier checks set it; it appends a lag
\* diagnostic to the replica's errors when the primary's log position minus
\* the replica's is more than 2097152 bytes, and nothing when it is at most
\* 2097152 bytes.
C13_LagCheckKeepsStatus ==
    Evaluated =>
        \A i \in 1..Len(InReplicas) :
            AsyncOnTimeline(i) /\ PassCompleted(i) =>
                /\ verdict.trace[6 + i] = verdict.trace[5 + i]
                /\ LagBytes(i) > 2097152 =>
                       OutReplicas[i].errors =
                           Append(InReplicas[i].errors,
                                  FormatLag(LagBytes(i)))
                /\ LagBytes(i) <= 2097152 =>
                       OutReplicas[i].errors = InReplicas[i].errors

\* C13 witness: the status is DEGRADED when the loop comes to an
\* asynchronous replica that is one byte more than 2 MiB behind; the replica
\* gets its lag diagnostic and the status is still DEGRADED after the pass.
C13_Witness ==
    /\ Returned
    /\ \E i \in 1..Len(InReplicas) :
           /\ AsyncOnTimeline(i)
           /\ LagBytes(i) = 2097153
           /\ verdict.trace[5 + i] = DEGRADED
           /\ verdict.trace[6 + i] = DEGRADED
           /\ OutReplicas[i].errors =
                  Append(InReplicas[i].errors, "Lag: 2.00MiB")

\* floor(member_count / 2), with member_count = 1 + number of replicas.
Majority == (1 + Len(InReplicas)) \div 2

\* C15 as stated: when the evaluated nodes in etcd state follower are fewer
\* than the majority the verdict returned is DOWN; when they are at least
\* the majority but fewer than the replicas the verdict returned is at least
\* DEGRADED, and the follower check does not by itself make the status DOWN.
C15_FollowersDecideVerdict ==
    Evaluated =>
        /\ EtcdFollowers < Majority =>
               /\ verdict.trace[6] = DOWN
               /\ verdict.outcome = "returned"
               /\ verdict.status = DOWN
        /\ (EtcdFollowers >= Majority /\ EtcdFollowers < Len(InReplicas)) =>
               /\ verdict.trace[6] = Max(verdict.trace[5], DEGRADED)
               /\ verdict.outcome = "returned"
               /\ verdict.status >= DEGRADED

\* The primary's replication list has no entry with sync_state = sync.
NoSyncReplica == GetSyncReplicas(InMaster.raw_status) = <<>>

\* C16 as stated: whenever the primary's replication list has no sync
\* entry, with no replicas or an unreachable primary included,
\* _determine_cluster_status returns DOWN whatever the other checks find.
C16_NoSyncReplicaIsDown ==
    (Evaluated /\ NoSyncReplica) =>
        verdict.outcome = "returned" /\ verdict.status = DOWN

\* C17 as stated: for every asynchronous replica whose timeline differs from
\* the primary's, whatever timeline the primary reports, the verdict
\* returned is at least DEGRADED and the replica's errors contain "Out of
\* sync"; the timeline check does not by itself make the status DOWN.
C17_OffTimelineIsDegraded ==
    Evaluated =>
        \A i \in 1..Len(InReplicas) :
            (/\ InMaster.node_ip # NoAddress
             /\ InMaster.raw_status.present
             /\ InReplicas[i].state = "async_replica"
             /\ InReplicas[i].timeline # InMaster.timeline) =>
                /\ verdict.outcome = "returned"
                /\ verdict.status >= DEGRADED
                /\ "Out of sync" \in Range(OutReplicas[i].errors)
                /\ verdict.trace[6 + i] = Max(verdict.trace[5 + i], DEGRADED)

\* C25: whenever _determine_cluster_status returns HEALTHY or DEGRADED, the
\* evaluated nodes hold exactly one etcd leader, and the leader with the etcd
\* followers is a strict majority of the members: 1 + followers is more than
\* half of 1 + the number of replicas.
C25_VerdictNotDownHasQuorum ==
    (Returned /\ verdict.status # DOWN) =>
        /\ EtcdLeaders = 1
        /\ 2 * (1 + EtcdFollowers) > 1 + Len(InReplicas)

\* C25 witness: DEGRADED is returned for a primary and two replicas with one
\* etcd leader and one follower, the bare majority of three.
C25_Witness ==
    /\ Returned
    /\ verdict.status = DEGRADED
    /\ Len(InReplicas) = 2
    /\ EtcdLeaders = 1
    /\ EtcdFollowers = 1

-----------------------------------------------------------------------------
(* Properties of the membership operations (SpecMembers) *)

Removed == op.name = "remove_cluster_node" /\ op.pc = "done"
Added == op.name = "add_cluster_node" /\ op.pc = "done"

LAST_REPLICA == "last replica cannot be removed"
CANNOT_REMOVE_MASTER == "master node cannot be removed"
ALREADY_MEMBER == "already part of the cluster"
ADD_DURING_INSTALL == "should be added during install"
NOT_OPERATIONAL == "does not appear to be operational"

\* The operation issued no command that changes the cluster, and the etcd
\* members, the configuration blob and haproxy are as they were.
NoMutation ==
    /\ calls = <<>>
    /\ Snapshot = op.before

\* remove_cluster_node was called with the master it resolved.
RemovedMaster == Removed /\ op.resolved /\ op.address = op.master

\* C3 (as stated): remove_cluster_node of the resolved master fails with the
\* cannot-remove-master error for every number of replicas, 0 and 1
\* included, and changes nothing.
C3_RemoveMasterIsCannotRemoveMaster ==
    RemovedMaster => op.error = CANNOT_REMOVE_MASTER /\ NoMutation

\* C3 (amended): remove_cluster_node of the resolved master always fails and
\* changes nothing; the error is the cannot-remove-master error when there
\* are at least 2 replicas and the last-replica error when there are fewer.
C3_RemoveMasterFails ==
    RemovedMaster =>
        /\ op.error = IF Len(op.replicas) < 2 THEN LAST_REPLICA
                      ELSE CANNOT_REMOVE_MASTER
        /\ NoMutation

C3_Witness ==
    /\ RemovedMaster
    /\ Len(op.replicas) >= 2
    /\ op.error = CANNOT_REMOVE_MASTER
    /\ DATABASE_SERVICE \in services
    /\ MemberId(etcd_members, op.address) # NoAddress

\* C4: with fewer than 2 resolved replicas remove_cluster_node fails with
\* the last-replica error, whatever the address and on both roles, and
\* removes no etcd member, writes no configuration, edits no haproxy
\* configuration and restarts no service.
C4_FewReplicasIsLastReplica ==
    (Removed /\ op.resolved /\ Len(op.replicas) < 2) =>
        op.error = LAST_REPLICA /\ NoMutation

C4_Witness ==
    /\ Removed
    /\ op.resolved
    /\ Len(op.replicas) = 1
    /\ op.address \in Range(op.replicas)
    /\ op.error = LAST_REPLICA
    /\ MemberId(etcd_members, op.address) # NoAddress

\* What _get_cluster_addresses gave, or would have given, when the
\* operation was called.
TopologyBefore ==
    ClusterAddresses(services, etcd_health,
                     MemberIps(op.before.etcd_members),
                     patroni_dsn, op.before.haproxy_servers)

\* add_cluster_node was called with the master or a replica of the
\* topology.
AddedMember ==
    /\ Added
    /\ TopologyBefore.outcome = "ok"
    /\ \/ op.address = TopologyBefore.master
       \/ op.address \in Range(TopologyBefore.replicas)

\* C5 (as stated): add_cluster_node of the master or of a replica fails
\* with the already-a-member error on either role, and changes nothing.
C5_AddMemberIsAlreadyMember ==
    AddedMember => op.error = ALREADY_MEMBER /\ NoMutation

\* C5 (amended): add_cluster_node of the master or of a replica always fails
\* and changes nothing; the error is the already-a-member error on a manager
\* node, and the added-during-install error on a database node, where the
\* topology is not looked at.
C5_AddMemberFails ==
    AddedMember =>
        /\ op.error = IF DATABASE_SERVICE \in services
                      THEN ADD_DURING_INSTALL ELSE ALREADY_MEMBER
        /\ NoMutation

C5_Witness ==
    /\ AddedMember
    /\ MANAGER_SERVICE \in services
    /\ op.address = op.master
    /\ op.error = ALREADY_MEMBER
    /\ agent[op.address].present

\* The pg_hba list of a stored configuration text.
StoredPgHba(stored) == GetPatroniDcsConf(stored).postgresql.pg_hba

\* The entry names the address: one of its fields is the address, alone or
\* as the /32 network of the address.
References(entry, address) ==
    \E i \in 1..Len(entry) : entry[i] \in {address, address \o "/32"}

\* The entries of the list that do not name the address, in their order.
NotReferencing(pg_hba, address) ==
    LET Other(entry) == ~References(entry, address)
    IN  SelectSeq(pg_hba, Other)

\* remove_cluster_node returned normally on a database node.
RemovedOnDatabaseNode ==
    Removed /\ op.error = "" /\ DATABASE_SERVICE \in services

\* C8: after a successful remove_cluster_node on a database node, no entry
\* of the stored pg_hba list names the address, and the list is the original
\* list without the entries that name the address: the others are unchanged
\* and in their original order.
C8_PgHbaWithoutAddress ==
    RemovedOnDatabaseNode =>
        /\ \A i \in 1..Len(StoredPgHba(dcs_config)) :
               ~References(StoredPgHba(dcs_config)[i], op.address)
        /\ StoredPgHba(dcs_config) =
               NotReferencing(StoredPgHba(op.before.dcs_config), op.address)

C8_Witness ==
    /\ RemovedOnDatabaseNode
    /\ Len(StoredPgHba(dcs_config)) > 2
    /\ Len(StoredPgHba(dcs_config)) < Len(StoredPgHba(op.before.dcs_config))

\* C10 (as stated): the replicas returned by _get_cluster_addresses never
\* contain the address returned as master, under both strategies.
C10_ReplicasWithoutMaster ==
    op.resolved => op.master \notin Range(op.replicas)

\* The DSN printed by patroni names no primary that master_finder can parse.
NoParseablePrimary ==
    ~(patroni_dsn.has_host /\ PortMatches(patroni_dsn.port))

\* An operation that resolves the topology first has run on a database node
\* whose etcd answers.
ResolvedOnDatabaseNode ==
    /\ op.pc = "done"
    /\ op.name \in {"remove_cluster_node", "reinit_cluster_node"}
    /\ DATABASE_SERVICE \in services
    /\ etcd_health = "member is healthy"

\* The addresses of the etcd members when the operation was called.
MemberAddressesBefore ==
    {op.before.etcd_members[i].ip : i \in 1..Len(op.before.etcd_members)}

\* C19: on a database node whose etcd is reachable, when the patroni DSN
\* holds no parseable primary, _get_cluster_addresses does not fail: it
\* returns primary None and as replicas every etcd member address, once each.
C19_UnknownPrimaryGivesAllMembers ==
    (ResolvedOnDatabaseNode /\ NoParseablePrimary) =>
        /\ op.resolved
        /\ op.error # "DBNodeListError"
        /\ op.master = NoAddress
        /\ Range(op.replicas) = MemberAddressesBefore
        /\ Len(op.replicas) = Cardinality(MemberAddressesBefore)

\* A removal on such a node, with three members resolved as replicas and a
\* DSN that names a host on another port.
C19_Witness ==
    /\ ResolvedOnDatabaseNode
    /\ NoParseablePrimary
    /\ patroni_dsn.has_host
    /\ op.name = "remove_cluster_node"
    /\ op.master = NoAddress
    /\ Len(op.replicas) = 3
    /\ op.error = ""

\* add_cluster_node was called on a manager node for an address that is
\* neither the master nor a replica of the topology it resolved.
AddedNewNodeOnManager ==
    /\ Added
    /\ MANAGER_SERVICE \in services
    /\ DATABASE_SERVICE \notin services
    /\ op.resolved
    /\ op.address # op.master
    /\ op.address \notin Range(op.replicas)

\* The agent of the address answers the probe with a status.
ProbeAnswered == agent[op.address].present

\* C22: on a manager node, add_cluster_node(address) for an address that is
\* not a member appends one backend entry for the address to the proxy
\* configuration and then restarts the dependent services exactly when the
\* probe of the agent of the address gives a non-empty status; with an empty
\* status it fails with the not-operational error and the proxy configuration
\* is as before. On a database node add_cluster_node appends nothing.
C22_AddAppendsIffProbeAnswers ==
    /\ AddedNewNodeOnManager =>
           IF ProbeAnswered
           THEN /\ op.error = ""
                /\ Len(haproxy_cfg) = Len(op.before.haproxy_cfg) + 1
                /\ SubSeq(haproxy_cfg, 1, Len(op.before.haproxy_cfg))
                       = op.before.haproxy_cfg
                /\ haproxy_cfg[Len(haproxy_cfg)] = HaproxyNodeEntry(op.address)
                /\ calls = <<<<"tee", "-a", "/etc/haproxy/haproxy.cfg",
                               op.address>>,
                             <<"systemctl", "restart", "haproxy">>,
                             <<"systemctl", "restart",
                               "cloudify-amqp-postgres">>,
                             <<"systemctl", "restart",
                               "cloudify-restservice">>>>
           ELSE /\ op.error = NOT_OPERATIONAL
                /\ haproxy_cfg = op.before.haproxy_cfg
                /\ calls = <<>>
    /\ (Added /\ DATABASE_SERVICE \in services) =>
           /\ haproxy_cfg = op.before.haproxy_cfg
           /\ calls = <<>>

\* C22 witness: a manager node whose haproxy has three servers added a
\* fourth node whose agent answers.
C22_Witness ==
    /\ AddedNewNodeOnManager
    /\ ProbeAnswered
    /\ Len(op.before.haproxy_cfg) = 3
    /\ Len(haproxy_cfg) = 4
    /\ haproxy_cfg[4] = HaproxyNodeEntry(op.address)
    /\ Len(calls) = 4

\* An operation has resolved the topology from the haproxy table.
ResolvedOnManagerNode ==
    /\ op.pc = "done"
    /\ op.resolved
    /\ MANAGER_SERVICE \in services
    /\ DATABASE_SERVICE \notin services

\* The addresses of the rows of the haproxy table when the operation was
\* called, and those of the rows that were UP.
BackendAddressesBefore ==
    {op.before.haproxy_servers[i].svname[2] :
        i \in 1..Len(op.before.haproxy_servers)}
UpAddressesBefore ==
    {op.before.haproxy_servers[i].svname[2] :
        i \in {j \in 1..Len(op.before.haproxy_servers) :
                  op.before.haproxy_servers[j].status = "UP"}}

\* C24 as stated: when _get_cluster_addresses reads the topology from the
\* haproxy table, the address of every row is the primary it returns or one
\* of the replicas it returns, whatever the statuses of the rows, with no row
\* UP or with several.
C24_EveryBackendAccountedFor ==
    ResolvedOnManagerNode =>
        BackendAddressesBefore \subseteq ({op.master} \cup Range(op.replicas))

-----------------------------------------------------------------------------
(* Properties of set_master (SpecSetMaster) *)

\* set_master returned after its polls.
MasterSet == op.name = "set_master" /\ op.pc = "done" /\ op.error = ""

\* The polls first gave the address as master at some poll k, and gave it at
\* every poll after k.
SettledAtFirstMatch ==
    /\ op.first_match \in 1..PollAttempts
    /\ ~op.strayed

\* C9 (as stated): if the polls of set_master first give the address as
\* master at poll k and give it ever after, set_master reports the change,
\* makes at most 30 polls, makes its last poll at poll k, and does not sleep
\* after poll k.
C9_PollsStopAtFirstMatch ==
    (MasterSet /\ SettledAtFirstMatch) =>
        /\ op.report = "Master changed"
        /\ op.polls <= PollAttempts
        /\ op.polls = op.first_match
        /\ ~op.slept_after_match

-----------------------------------------------------------------------------
(* Properties of the four membership operations (SpecOperations) *)

CANNOT_FIND_NODE == "cannot find node"
CANNOT_REINIT_MASTER == "master cannot be reinitialised"
ALREADY_MASTER == "is the current master"
NOT_MEMBER == "not part of the cluster"
ONLY_FROM_DB_NODE == "only from a DB node"

\* The DBManagementErrors raised by the checks of the four operations.
PreconditionErrors ==
    {ALREADY_MEMBER, NOT_MEMBER, CANNOT_FIND_NODE, LAST_REPLICA,
     CANNOT_REMOVE_MASTER, CANNOT_REINIT_MASTER, ALREADY_MASTER,
     ONLY_FROM_DB_NODE, ADD_DURING_INSTALL, NOT_OPERATIONAL}

\* C14: when add_cluster_node, remove_cluster_node, reinit_cluster_node or
\* set_master ends in one of its precondition errors, it has issued no
\* command that changes the cluster, and the etcd members, the configuration
\* blob and haproxy are as they were before the call.
C14_PreconditionErrorsChangeNothing ==
    (op.pc = "done" /\ op.error \in PreconditionErrors) => NoMutation

\* C14 witness: remove_cluster_node passed the checks of the replica count
\* and of the master on a database node, and found no etcd member for the
\* address.
C14_Witness ==
    /\ Removed
    /\ DATABASE_SERVICE \in services
    /\ op.error = CANNOT_FIND_NODE
    /\ Len(etcd_members) >= 2
    /\ NoMutation

\* reinit_cluster_node or set_master has resolved the topology and has gone
\* through its checks; no poll of set_master has replaced the master yet.
PatroniOperationChecked ==
    /\ op.name \in {"reinit_cluster_node", "set_master"}
    /\ op.pc # "idle"
    /\ op.resolved
    /\ op.polls = 0

\* The patroni command of the operation is the one command issued.
PatroniCommandSent ==
    /\ Len(calls) = 1
    /\ calls[1][1] = "patronictl"
    /\ calls[1][2] = IF op.name = "reinit_cluster_node" THEN "reinit"
                     ELSE "switchover"
    /\ calls[1][Len(calls[1])] = GetPatroniId(op.address)

\* C20: reinit_cluster_node(address) and set_master(address) issue their
\* patroni command exactly when the caller is a database node and the address
\* is a member of the resolved topology other than the primary; otherwise
\* they issue nothing and fail, on the primary check first, then on
\* membership, then on the role of the caller.
C20_PatroniCommandIffEligible ==
    PatroniOperationChecked =>
        LET is_primary == op.address = op.master
            is_member == is_primary \/ op.address \in Range(op.replicas)
            on_db_node == DATABASE_SERVICE \in services
        IN  /\ PatroniCommandSent <=> (on_db_node /\ is_member /\ ~is_primary)
            /\ ~PatroniCommandSent => calls = <<>>
            /\ op.error =
                   IF is_primary
                   THEN IF op.name = "reinit_cluster_node"
                        THEN CANNOT_REINIT_MASTER ELSE ALREADY_MASTER
                   ELSE IF ~is_member THEN NOT_MEMBER
                   ELSE IF ~on_db_node THEN ONLY_FROM_DB_NODE
                   ELSE ""

\* C20 witness: set_master on a database node for a replica of a known
\* primary has sent the switchover and waits for its first poll.
C20_Witness ==
    /\ PatroniOperationChecked
    /\ op.name = "set_master"
    /\ op.pc = "polling"
    /\ DATABASE_SERVICE \in services
    /\ op.master # NoAddress
    /\ op.address \in Range(op.replicas)
    /\ PatroniCommandSent

\* set_master went through its checks on a database node and has ended.
SetMasterEnded ==
    /\ op.name = "set_master"
    /\ op.pc = "done"
    /\ op.resolved
    /\ op.error \notin PreconditionErrors

\* The switchovers among the commands issued.
Switchovers == {i \in 1..Len(calls) : calls[i][2] = "switchover"}

\* C21 as stated: once set_master(address) has passed its checks it issues
\* exactly one switchover and ends after at most 30 polls of the topology; it
\* returns without raising, with the warning when the primary is not the
\* address at the end of the polls, and with the success message only when
\* the primary is the address.
C21_OneSwitchoverThenReport ==
    SetMasterEnded =>
        /\ Cardinality(Switchovers) = 1
        /\ op.polls <= PollAttempts
        /\ op.error = ""
        /\ op.master # op.address => op.report = "Master has not changed"
        /\ op.report = "Master changed" => op.master = op.address

-----------------------------------------------------------------------------
(* Properties of _get_raw_node_status (SpecProbe) *)

\* C18 as stated: _get_raw_node_status makes at most one request, and for
\* an absent address and for every failure of the request (connection
\* refused, timeout, TLS failure, a body that is not JSON) it returns an
\* empty result instead of raising.
C18_ProbeFailuresGiveEmptyResult ==
    probe.phase = "done" =>
        /\ Len(probe.requests) <= 1
        /\ (probe.address = NoAddress \/ probe.response.raises # "") =>
               /\ probe.outcome = "returned"
               /\ probe.value \in {"{}", "None"}

-----------------------------------------------------------------------------
(* Properties of _etcd_requires_auth (SpecAuth) *)

\* The query succeeded: etcd is up and asks for no authentication.
AnsweredOpen(reply) == reply.returncode = 0

\* The query failed with code 4 and a text about user authentication.
AnsweredAuth(reply) ==
    /\ reply.returncode = 4
    /\ "user authentication" \in Range(reply.aggr_stderr)

\* The queries made so far that gave neither answer.
Undecided ==
    {i \in 1..Len(auth.replies) :
        ~AnsweredOpen(auth.replies[i]) /\ ~AnsweredAuth(auth.replies[i])}

\* What _etcd_requires_auth has done is what its answers call for.
AuthResultFollowsAnswers ==
    LET n == Len(auth.replies)
    IN  /\ n <= Attempts
        /\ 1..(n - 1) \subseteq Undecided
        /\ auth.slept = WaitTime * Cardinality(Undecided)
        /\ auth.pc = "running" => Undecided = 1..n
        /\ auth.pc = "done" =>
               /\ auth.result \in {"False", "True", "ClusteringError"}
               /\ auth.result = "False" <=>
                      (n >= 1 /\ AnsweredOpen(auth.replies[n]))
               /\ auth.result = "True" <=>
                      (n >= 1 /\ AnsweredAuth(auth.replies[n]))
               /\ auth.result = "ClusteringError" <=>
                      (n = Attempts /\ Undecided = 1..Attempts)

\* C23: _etcd_requires_auth ends after at most 5 queries of etcd: it returns
\* False at the first query with return code 0, True at the first query with
\* return code 4 and a text about user authentication, sleeps 3 seconds after
\* every other answer, and raises ClusteringError exactly when all 5 queries
\* gave neither answer.
C23_AuthCheckEndsWithinFiveQueries ==
    /\ []AuthResultFollowsAnswers
    /\ (auth.pc = "running") ~> (auth.pc = "done")

\* C23 witness: five queries, one of them refused with code 4 for another
\* reason, 15 seconds of sleep, and the ClusteringError.
C23_Witness ==
    /\ auth.pc = "done"
    /\ auth.result = "ClusteringError"
    /\ Len(auth.replies) = 5
    /\ auth.slept = 15
    /\ \E i \in 1..5 : /\ auth.replies[i].returncode = 4
                       /\ auth.replies[i].aggr_stderr # <<>>

=============================================================================
